---- MODULE Spec2Model ----
(***************************************************************************)
(* Model of text_normaliser.py: the rule-based text normalisation          *)
(* pipeline (process_text) and the helper functions it is built from       *)
(* (num2words, trailing_punctuation, process_contractions, process_dates,  *)
(* process_numbers, process_times, remove_punctuation).                    *)
(*                                                                         *)
(* Python strings are TLA+ strings (Len, SubSeq and \o act on them).  A    *)
(* Python call either returns a value or raises: every modelled function  *)
(* returns a record [exc, val] with exc = "none" for a normal return and   *)
(* the exception's class name otherwise.                                   *)
(*                                                                         *)
(* Python integers are unbounded; the model keeps an integer n as two      *)
(* limbs [hi, lo] with n = hi * 10^9 + lo so that values of 10^12 and      *)
(* above can be represented.                                               *)
(***************************************************************************)
EXTENDS Integers, Sequences, FiniteSets, TLC

VARIABLES fn, args, text, pc, ret

vars == <<fn, args, text, pc, ret>>

(***************************************************************************)
(* Results of calls                                                        *)
(***************************************************************************)
Ok(v) == [exc |-> "none", val |-> v]

Raise(e) == [exc |-> e, val |-> ""]

\* what the state records of a call: the tuple of the values it returned
\* (empty while the call is pending and when it raised)
NoRet == [exc |-> "pending", val |-> <<>>]

\* a call that returned one value, or raised
Returned(r) == [exc |-> r.exc, val |-> IF r.exc = "none" THEN <<r.val>> ELSE <<>>]

\* a call that returned a tuple of values, or raised
ReturnedTuple(r) == [exc |-> r.exc, val |-> IF r.exc = "none" THEN r.val ELSE <<>>]

\* F applied to the value of v, v evaluated once
Let(v, F(_)) == CHOOSE out \in {F(x) : x \in {v}} : TRUE

\* an exception raised by r propagates to the caller; otherwise the
\* computation goes on with the value r returned
Try(r, F(_)) == Let(r, LAMBDA x : IF x.exc # "none" THEN x ELSE F(x.val))

(***************************************************************************)
(* Python string primitives                                                *)
(***************************************************************************)
Char(s, i) == SubSeq(s, i, i)

\* sub in s  (substring test of Python's `in` on two strings)
str_in(sub, s) ==
    \E i \in 0..(Len(s) - Len(sub)) : SubSeq(s, i + 1, i + Len(sub)) = sub

endswith(s, suffix) ==
    /\ Len(suffix) <= Len(s)
    /\ SubSeq(s, Len(s) - Len(suffix) + 1, Len(s)) = suffix

\* s.endswith((t1, t2, ...)) with a tuple of suffixes
endswith_any(s, suffixes) ==
    \E i \in 1..Len(suffixes) : endswith(s, suffixes[i])

RECURSIVE reversed(_)
\* s[::-1]
reversed(s) ==
    IF s = "" THEN "" ELSE reversed(SubSeq(s, 2, Len(s))) \o Char(s, 1)

\* first 1-based position of the one-character string c in s, 0 if absent
find(s, c) ==
    IF \E i \in 1..Len(s) : Char(s, i) = c
    THEN CHOOSE i \in 1..Len(s) :
            /\ Char(s, i) = c
            /\ \A j \in 1..(i - 1) : Char(s, j) # c
    ELSE 0

RECURSIVE split(_, _)
\* s.split(sep) for a one-character separator: always at least one piece
split(s, sep) ==
    LET i == find(s, sep)
    IN  IF i = 0 THEN <<s>>
        ELSE <<SubSeq(s, 1, i - 1)>> \o split(SubSeq(s, i + 1, Len(s)), sep)

RECURSIVE join(_, _)
\* sep.join(list)
join(sep, list) ==
    IF list = <<>> THEN ""
    ELSE IF Len(list) = 1 THEN list[1]
    ELSE list[1] \o sep \o join(sep, Tail(list))

\* s.split(): pieces between runs of whitespace, no empty piece
split_whitespace(s) ==
    LET pieces == split(s, " ")
    IN  SelectSeq(pieces, LAMBDA p : p # "")

ascii_uppercase == "ABCDEFGHIJKLMNOPQRSTUVWXYZ"

ascii_lowercase == "abcdefghijklmnopqrstuvwxyz"

lower_char(c) ==
    LET i == find(ascii_uppercase, c)
    IN  IF i = 0 THEN c ELSE Char(ascii_lowercase, i)

RECURSIVE lower(_)
\* s.lower()
lower(s) ==
    IF s = "" THEN "" ELSE lower_char(Char(s, 1)) \o lower(SubSeq(s, 2, Len(s)))

RECURSIVE replace_all(_, _, _)
\* re.sub(pat, rep, s) for a literal pattern: leftmost, non-overlapping
replace_all(s, pat, rep) ==
    IF Len(s) < Len(pat) THEN s
    ELSE IF SubSeq(s, 1, Len(pat)) = pat
         THEN rep \o replace_all(SubSeq(s, Len(pat) + 1, Len(s)), pat, rep)
         ELSE Char(s, 1) \o replace_all(SubSeq(s, 2, Len(s)), pat, rep)

RECURSIVE count(_, _)
\* s.count(sub): non-overlapping occurrences
count(s, sub) ==
    IF Len(s) < Len(sub) THEN 0
    ELSE IF SubSeq(s, 1, Len(sub)) = sub
         THEN 1 + count(SubSeq(s, Len(sub) + 1, Len(s)), sub)
         ELSE count(SubSeq(s, 2, Len(s)), sub)

digits == "0123456789"

isdigit(c) == str_in(c, digits) /\ Len(c) = 1

(***************************************************************************)
(* Regular expressions: a pattern is matched by threading the set of       *)
(* positions (number of characters consumed) reachable after each piece.   *)
(***************************************************************************)
\* [0-9]{lo,hi} from every position of P
re_digits(s, P, lo, hi) ==
    UNION {{p + k : k \in {k \in lo..hi :
                            /\ p + k <= Len(s)
                            /\ \A j \in (p + 1)..(p + k) : isdigit(Char(s, j))}}
           : p \in P}

\* [0-9]+ from every position of P
re_digits_plus(s, P) == re_digits(s, P, 1, Len(s))

\* a one-character class [c] from every position of P
re_char(s, P, c) ==
    {p + 1 : p \in {q \in P : q < Len(s) /\ Char(s, q + 1) = c}}

\* re.match: the pattern matches a prefix of s
re_match(ends) == ends # {}

\* re.fullmatch: the pattern matches all of s
re_fullmatch(s, ends) == Len(s) \in ends

(***************************************************************************)
(* Python integers as two limbs                                            *)
(***************************************************************************)
Limb == 1000000000

Num(hi, lo) == [hi |-> hi, lo |-> lo]

Small(k) == Num(0, k)

\* num < k for a machine-size k >= -Limb
num_lt(num, k) == num.hi < 0 \/ (num.hi = 0 /\ num.lo < k)

\* int(num/key) for num >= 0 and a key dividing 10^9; the float quotient of
\* the code is exact below 10^15, the range of the model's inputs
num_div(num, key) ==
    Num(num.hi \div key, (num.hi % key) * (Limb \div key) + (num.lo \div key))

\* num % key for num >= 0 and a key dividing 10^9
num_mod(num, key) == Small(num.lo % key)

digit_value(c) == find(digits, c) - 1

RECURSIVE decimal(_)
\* value of a string of at most 9 decimal digits
decimal(s) ==
    IF s = "" THEN 0
    ELSE 10 * decimal(SubSeq(s, 1, Len(s) - 1)) + digit_value(Char(s, Len(s)))

RECURSIVE strip(_)
\* s.strip() (the model's only whitespace character is the space)
strip(s) ==
    IF s # "" /\ Char(s, 1) = " " THEN strip(SubSeq(s, 2, Len(s)))
    ELSE IF s # "" /\ Char(s, Len(s)) = " " THEN strip(SubSeq(s, 1, Len(s) - 1))
    ELSE s

\* int(s): optional surrounding whitespace, optional sign, decimal digits with
\* single underscores allowed between digits; anything else is a ValueError.
\* Literals of more than 18 digits are outside the model's inputs.
int(s) ==
    LET t    == strip(s)
        neg  == t # "" /\ Char(t, 1) = "-"
        body == IF t # "" /\ Char(t, 1) \in {"-", "+"} THEN SubSeq(t, 2, Len(t)) ELSE t
        wellformed ==
            /\ body # ""
            /\ \A i \in 1..Len(body) : isdigit(Char(body, i)) \/ Char(body, i) = "_"
            /\ isdigit(Char(body, 1))
            /\ isdigit(Char(body, Len(body)))
            /\ ~ str_in("__", body)
        ds   == replace_all(body, "_", "")
        n    == Len(ds)
        hi   == IF n > 9 THEN decimal(SubSeq(ds, 1, n - 9)) ELSE 0
        lo   == IF n > 9 THEN decimal(SubSeq(ds, n - 8, n)) ELSE decimal(ds)
    IN  IF ~ wellformed THEN Raise("ValueError")
        ELSE IF neg THEN Ok(Num(0 - hi, 0 - lo))
        ELSE Ok(Num(hi, lo))

(***************************************************************************)
(* trailing_punctuation                                                    *)
(***************************************************************************)
\* the punctuation symbols of trailing_punctuation and remove_punctuation
punctuation == "!()-[]{};:'\"\\,<>./?@#$%^&*_~"

RECURSIVE trailing_scan(_, _, _)
\* the while loop: i counts the characters taken from the reversed string;
\* indexing the reversed string at i = len(string) raises IndexError
trailing_scan(string, i, endstring) ==
    IF i >= Len(string) THEN Raise("IndexError")
    ELSE IF str_in(Char(reversed(string), i + 1), punctuation)
         THEN trailing_scan(string, i + 1, endstring \o Char(reversed(string), i + 1))
         ELSE Ok(endstring)

\* returns Ok(<<string without the trailing punctuation, endstring>>)
trailing_punctuation(string) ==
    IF str_in(string, punctuation) THEN Ok(<<string, "">>)
    ELSE Try(trailing_scan(string, 0, ""), LAMBDA endstring :
            IF Len(endstring) > 0
            THEN Ok(<<SubSeq(string, 1, Len(string) - Len(endstring)), endstring>>)
            ELSE Ok(<<string, endstring>>))

(***************************************************************************)
(* num2words                                                               *)
(***************************************************************************)
\* depth of nested calls the interpreter allows before RecursionError
RecursionLimit == 8

nums_0_19(ordinal) ==
    IF ordinal
    THEN <<"Zeroth", "First", "Second", "Third", "Fourth", "Fifth", "Sixth",
           "Seventh", "Eighth", "Ninth", "Tenth", "Eleventh", "Twelfth",
           "Thirteenth", "Fourteenth", "Fifteenth", "Sixteenth", "Seventeenth",
           "Eighteenth", "Nineteenth">>
    ELSE <<"Zero", "One", "Two", "Three", "Four", "Five", "Six", "Seven",
           "Eight", "Nine", "Ten", "Eleven", "Twelve", "Thirteen", "Fourteen",
           "Fifteen", "Sixteen", "Seventeen", "Eighteen", "Nineteen">>

nums_20_90 ==
    <<"Twenty", "Thirty", "Forty", "Fifty", "Sixty", "Seventy", "Eighty", "Ninety">>

scale_keys == {100, 1000, 1000000, 1000000000}

\* the scale table with the billion entry mistyped
nums_scales_no_billion(key) ==
    CASE key = 100 -> "Hundred"
      [] key = 1000 -> "Thousand"
      [] key = 1000000 -> "Million"
      [] key = 1000000000 -> "Million"

nums_scales(key) ==
    CASE key = 100 -> "Hundred"
      [] key = 1000 -> "Thousand"
      [] key = 1000000 -> "Million"
      [] key = 1000000000 -> "Billion"

\* list[i] with Python's indexing: 0-based, negative indices count from the end
list_index(list, i) ==
    IF i.hi # 0 \/ i.lo >= Len(list) \/ i.lo < 0 - Len(list) THEN Raise("IndexError")
    ELSE IF i.lo < 0 THEN Ok(list[Len(list) + i.lo + 1])
    ELSE Ok(list[i.lo + 1])

\* the largest key of the table, the filter `if key <= num` forgotten
maxkey_unfiltered(num) ==
    CHOOSE key \in scale_keys : \A other \in scale_keys : other <= key

\* max([key for key in nums_scales.keys() if key <= num]), for num >= 100
maxkey(num) ==
    LET keys == {key \in scale_keys : ~ num_lt(num, key)}
    IN  CHOOSE key \in keys : \A other \in keys : other <= key

\* the remainder term joined by a space only
and_remainder_omitted(words) == " " \o words

\* the remainder term: '' if num%maxkey == 0 else ' and ' + <words of num%maxkey>
and_remainder(words) == " and " \o words

\* the suffixes after which the ordinal repair appends 'th'
repair_suffixes == <<"ed", "nd", "n", "y">>

\* the ordinal repair of the recursive branch
ordinal_repair(word) ==
    IF endswith_any(word, repair_suffixes)
    THEN (IF endswith(word, "y") THEN SubSeq(word, 1, Len(word) - 1) \o "ie" ELSE word)
         \o "th"
    ELSE word

\* nums_20_90[int(num/10)-2] + ('' if num%10 == 0 else ' ' + nums_0_19[num%10])
tens_words(num, ordinal) ==
    nums_20_90[num_div(num, 10).lo - 2 + 1]
    \o (IF num_mod(num, 10) = Small(0) THEN ""
        ELSE " " \o nums_0_19(ordinal)[num_mod(num, 10).lo + 1])

RECURSIVE num2words_at(_, _, _)
\* num2words(num, ordinal) called at the given depth of the call stack
num2words_at(num, ordinal, depth) ==
    IF depth > RecursionLimit THEN Raise("RecursionError")
    ELSE IF num_lt(num, 20) THEN list_index(nums_0_19(ordinal), num)
    ELSE IF num_lt(num, 100) THEN Ok(tens_words(num, ordinal))
    ELSE Let(maxkey(num), LAMBDA key :
         Let(num_div(num, key), LAMBDA quot :
         Let(num_mod(num, key), LAMBDA rem :
         Try(num2words_at(quot, FALSE, depth + 1), LAMBDA head :
         Try(IF rem = Small(0) THEN Ok("") ELSE num2words_at(rem, ordinal, depth + 1),
             LAMBDA rest :
         Let(head \o " " \o nums_scales(key)
                  \o (IF rem = Small(0) THEN "" ELSE and_remainder(rest)),
             LAMBDA word :
         IF ordinal THEN Ok(ordinal_repair(word)) ELSE Ok(word)))))))

num2words(num, ordinal) == num2words_at(num, ordinal, 1)

(***************************************************************************)
(* Stage helpers                                                           *)
(***************************************************************************)
chars_list(s) == [i \in 1..Len(s) |-> Char(s, i)]

\* num2words(int(s)): int raises first, then num2words
words_of(s, ordinal) == Try(int(s), LAMBDA n : num2words(n, ordinal))

RECURSIVE words_list(_)
\* [num2words(int(s)) for s in list]: the first exception ends the comprehension
words_list(list) ==
    IF list = <<>> THEN Ok(<<>>)
    ELSE Try(words_of(list[1], FALSE), LAMBDA w :
         Try(words_list(Tail(list)), LAMBDA rest :
         Ok(<<w>> \o rest)))

\* sep.join([num2words(int(s)) for s in pstring]) + endstring
joined_words(sep, pstring, endstring) ==
    Try(words_list(pstring), LAMBDA ws : Ok(join(sep, ws) \o endstring))

(***************************************************************************)
(* process_contractions                                                    *)
(***************************************************************************)
process_contractions(string) ==
    LET p1 == replace_all(string, "n't", " not")
        p2 == replace_all(p1, "'re", " are")
        p3 == replace_all(p2, "'s", " is")
        p4 == replace_all(p3, "'d", " would")
        p5 == replace_all(p4, "'ll", " will")
        p6 == replace_all(p5, "'ve", " have")
    IN  replace_all(p6, "'m", " am")

(***************************************************************************)
(* process_numbers                                                         *)
(***************************************************************************)
number_ords ==
    <<"0th", "1st", "2nd", "3rd", "4th", "5th", "6th", "7th", "8th", "9th",
      "10th", "11th", "12th", "13th">>

\* [0-9]+[c][0-9]+
re_operation(s, c) == re_digits_plus(s, re_char(s, re_digits_plus(s, {0}), c))

\* the ordinal rule: strip the two-letter suffix and word the rest as an ordinal
numbers_ordinal(string, endstring) ==
    Try(words_of(SubSeq(string, 1, Len(string) - 2), TRUE), LAMBDA w :
        Ok(w \o endstring))

\* the multiplication rule for one of the separators '*', 'x', 'X'
numbers_times(string, sep, endstring) ==
    joined_words(" times ", split(string, sep), endstring)

\* the decimal point rule
numbers_point(string, endstring) ==
    Let(split(string, "."), LAMBDA pstring :
    Try(words_of(pstring[1], FALSE), LAMBDA whole :
    Try(words_list(chars_list(pstring[2])), LAMBDA frac :
    Ok(whole \o " point " \o join(" ", frac) \o endstring))))

\* the if/elif chain of process_numbers on the core of the token
numbers_rules(string, endstring) ==
    IF endswith_any(string, number_ords) THEN numbers_ordinal(string, endstring)
    ELSE IF re_match(re_operation(string, "*")) THEN numbers_times(string, "*", endstring)
    ELSE IF re_match(re_operation(string, "x")) THEN numbers_times(string, "x", endstring)
    ELSE IF re_match(re_operation(string, "X")) THEN numbers_times(string, "X", endstring)
    ELSE IF re_fullmatch(string, re_operation(string, "/"))
         THEN joined_words(" divided by ", split(string, "/"), endstring)
    ELSE IF re_fullmatch(string, re_digits_plus(string, {0}))
         THEN joined_words("", <<string>>, endstring)
    ELSE IF re_match(re_operation(string, ".")) THEN numbers_point(string, endstring)
    ELSE IF string = "*" THEN Ok("times")
    ELSE Ok(string \o endstring)

process_numbers(string) ==
    Try(trailing_punctuation(string), LAMBDA tp : numbers_rules(tp[1], tp[2]))

(***************************************************************************)
(* process_times                                                           *)
(***************************************************************************)
meridiems == <<"am", "pm", "AM", "PM", "a.m", "a.m.", "p.m", "p.m.">>

\* [0-9]{1,2}[:][0-9]{2}
re_hhmm(s) == re_digits(s, re_char(s, re_digits(s, {0}, 1, 2), ":"), 2, 2)

\* [0-9]{1,2}[:][0-9]{2}[:][0-9]{2}
re_hhmmss(s) == re_digits(s, re_char(s, re_hhmm(s), ":"), 2, 2)

\* pstring.append(pstring[-1][2:]); pstring[field] = pstring[field][:2]
\* (field is the Python index of the glued field)
detach_meridiem(pstring, field) ==
    Let(pstring[Len(pstring)], LAMBDA last :
        [Append(pstring, SubSeq(last, 3, Len(last))) EXCEPT
            ![field + 1] = SubSeq(@, 1, 2)])

\* the H:MM:SS branch
times_hhmmss(string, endstring) ==
    Let(split(string, ":"), LAMBDA pstring :
    Let(endswith_any(pstring[Len(pstring)], meridiems), LAMBDA attached :
    Let(IF attached THEN detach_meridiem(pstring, 2) ELSE pstring, LAMBDA p :
    Try(words_of(p[1], FALSE), LAMBDA h :
    Try(words_of(p[2], FALSE), LAMBDA m :
    Try(words_of(p[3], FALSE), LAMBDA sec :
    IF attached
    THEN Ok(h \o " " \o m \o " and " \o sec \o " seconds " \o p[4] \o endstring)
    ELSE Ok(h \o " " \o m \o " and " \o sec \o " seconds" \o endstring)))))))

\* the H:MM branch
times_hhmm(string, endstring) ==
    Let(split(string, ":"), LAMBDA pstring :
    Let(endswith_any(pstring[Len(pstring)], meridiems), LAMBDA attached :
    Let(IF attached THEN detach_meridiem(pstring, 1) ELSE pstring, LAMBDA p :
    Try(words_of(p[1], FALSE), LAMBDA h :
    Try(words_of(p[2], FALSE), LAMBDA m :
    IF attached THEN Ok(h \o " " \o m \o " " \o p[3] \o endstring)
    ELSE Ok(h \o " " \o m \o endstring))))))

process_times(string) ==
    Try(trailing_punctuation(string), LAMBDA tp :
        IF re_match(re_hhmmss(tp[1])) THEN times_hhmmss(tp[1], tp[2])
        ELSE IF re_match(re_hhmm(tp[1])) THEN times_hhmm(tp[1], tp[2])
        ELSE Ok(tp[1] \o tp[2]))

(***************************************************************************)
(* process_dates                                                           *)
(***************************************************************************)
months ==
    <<"", "January", "February", "March", "April", "May", "June", "July",
      "August", "September", "October", "November", "December">>

date_ords ==
    <<"zeroth", "first", "second", "third", "fourth", "fifth", "sixth",
      "seventh", "eighth", "ninth", "tenth", "eleventh", "twelfth",
      "thirteenth", "fourteenth", "fifteenth", "sixteenth", "seventeenth",
      "eighteenth", "nineteenth", "twentieth", "twenty first", "twenty second",
      "twenty third", "twenty fourth", "twenty fifth", "twenty sixth",
      "twenty seventh", "twenty eigth", "twenty ninth", "thirtieth",
      "thirty first">>

date_separators == <<"\\", "/", "-">>

\* [0-9]{1,2}[sep][0-9]{1,2}[sep][0-9]{2}([0-9]{0}|[0-9]{2})
re_date(s, sep) ==
    LET d1 == re_digits(s, {0}, 1, 2)
        d2 == re_digits(s, re_char(s, d1, sep), 1, 2)
        yy == re_digits(s, re_char(s, d2, sep), 2, 2)
    IN  re_digits(s, yy, 0, 0) \cup re_digits(s, yy, 2, 2)

\* ords[int(pstring[day])] + ' of ' + months[int(pstring[month])] + ' '
\*   + num2words(int(pstring[2])) + endstring, day and month Python indices
date_words(pstring, day, month, endstring) ==
    Try(int(pstring[day + 1]), LAMBDA d :
    Try(list_index(date_ords, d), LAMBDA od :
    Try(int(pstring[month + 1]), LAMBDA m :
    Try(list_index(months, m), LAMBDA mo :
    Try(words_of(pstring[3], FALSE), LAMBDA y :
    Ok(od \o " of " \o mo \o " " \o y \o endstring))))))

\* the UK returns: field 0 is the day, field 1 the month
dates_UK(pstring, endstring) == date_words(pstring, 0, 1, endstring)

\* the US returns reading the fields in the UK order
dates_US_as_UK(pstring, endstring) == date_words(pstring, 0, 1, endstring)

\* the US returns: field 1 is the day, field 0 the month
dates_US(pstring, endstring) == date_words(pstring, 1, 0, endstring)

\* the three-separator if/elif chain of one country
dates_rules(string, country, endstring) ==
    Let({i \in 1..3 : re_match(re_date(string, date_separators[i]))}, LAMBDA matching :
        IF matching # {}
        THEN Let(split(string, date_separators[CHOOSE i \in matching :
                                                 \A j \in matching : i <= j]),
                 LAMBDA pstring :
                    IF country = "UK" THEN dates_UK(pstring, endstring)
                    ELSE dates_US(pstring, endstring))
        ELSE Ok(string \o endstring))

process_dates(string, country) ==
    Try(trailing_punctuation(string), LAMBDA tp : dates_rules(tp[1], country, tp[2]))

(***************************************************************************)
(* remove_punctuation                                                      *)
(***************************************************************************)
RECURSIVE remove_punctuation(_)
remove_punctuation(string) ==
    IF string = "" THEN ""
    ELSE (IF str_in(Char(string, 1), punctuation) THEN "" ELSE Char(string, 1))
         \o remove_punctuation(SubSeq(string, 2, Len(string)))

(***************************************************************************)
(* The optional stages and their external collaborators                    *)
(***************************************************************************)
\* the keys of CMUdict: a fixture standing for the dictionary file
CMUdict_keys == {"hello", "one", "two", "times", "is"}

\* CMUdict[word]
CMUdict(word) ==
    CASE word = "hello" -> "HH AH0 L OW1"
      [] word = "one" -> "W AH1 N"
      [] word = "two" -> "T UW1"
      [] word = "times" -> "T AY1 M Z"
      [] word = "is" -> "IH1 Z"

\* spell.correction(word): a fixture standing for the external corrector
spell_correction(word) == IF word = "helo" THEN "hello" ELSE word

process_pronounciation(string, country) ==
    Try(trailing_punctuation(string), LAMBDA tp :
        IF country = "UK" THEN Ok(tp[1] \o tp[2])
        ELSE IF tp[1] \in CMUdict_keys THEN Ok(CMUdict(tp[1]) \o tp[2])
        ELSE Ok("" \o tp[2]))

spellcheck(string) ==
    Try(trailing_punctuation(string), LAMBDA tp :
        IF tp[1] \in CMUdict_keys THEN Ok(tp[1] \o tp[2])
        ELSE Ok(spell_correction(tp[1]) \o tp[2]))

(***************************************************************************)
(* Inputs                                                                  *)
(***************************************************************************)
MaxTokenLen == 3

MaxTextLen == 2

TokenAlphabet == {"a", "1", "!", "?", ".", "(", ")"}

RECURSIVE StringsOfLen(_, _)
StringsOfLen(alphabet, n) ==
    IF n = 0 THEN {""}
    ELSE {s \o c : s \in StringsOfLen(alphabet, n - 1), c \in alphabet}

\* tokens given to trailing_punctuation
Tokens == UNION {StringsOfLen(TokenAlphabet, n) : n \in 1..MaxTokenLen}

\* three-digit groups from which the numbers given to num2words are composed
Groups == {0, 1, 2, 13, 20, 21, 100, 102, 999}

BillionGroups == {0, 1, 999, 1000, 1001, 999999}

Nums ==
    {Num(b, m * 1000000 + t * 1000 + u) :
        b \in BillionGroups, m \in Groups, t \in Groups, u \in Groups}

TensNums == {Small(10 * k) : k \in 3..9}

DateFields == {"1", "01", "12", "13", "32"}

DateYears == {"99", "2000", "200", "20001"}

DateTails == {"", ",", "/5", "abc"}

DateSeps == {"\\", "/", "-"}

DateTokens ==
    {a \o s1 \o b \o s2 \o y \o tail :
        a \in DateFields, s1 \in DateSeps, b \in DateFields, s2 \in DateSeps,
        y \in DateYears, tail \in DateTails}

Countries == {"UK", "US"}

NumberTokens ==
    {a \o op \o b \o tail :
        a \in {"2", "12"}, op \in {"*", "x", "X", "/", "."}, b \in {"3", "13"},
        tail \in {"", "*4", "x4", "abc", "!", "th"}}
    \cup {d \o suffix :
            d \in {"1", "2", "20", "21", "30", "100", "x1"},
            suffix \in {"", "th", "st", "nd", "rd", "th."}}
    \cup {"*", "hello", "hello,"}

TimeTokens ==
    {h \o ":" \o m \o tail :
        h \in {"9", "10"}, m \in {"05", "35", "5"},
        tail \in {"", "pm", "a.m.", ":07", ":07am", "abc", ":07x"}}

ContractionTokens == {"couldn't", "i'll", "it's", "we're", "i'd", "i've", "i'm", "hello"}

\* tokens of the texts given to process_text
TextTokens ==
    {"Hello!", "couldn't", "01/12/2000", "12X13", "10:35pm", "21st", "...",
     "12*13abc", "helo"}

RECURSIVE TokenLists(_)
TokenLists(n) ==
    IF n = 0 THEN {<<>>}
    ELSE {Append(l, t) : l \in TokenLists(n - 1), t \in TextTokens}

Texts == {join(" ", l) : l \in UNION {TokenLists(n) : n \in 1..MaxTextLen}}

(***************************************************************************)
(* State machine: a caller invokes one function; process_text runs its     *)
(* stages one after the other over the list `text`.                        *)
(***************************************************************************)
NoArgs ==
    [string |-> "", num |-> Small(0), ordinal |-> FALSE, country |-> "",
     pronounciation |-> FALSE, punctuation |-> TRUE, spellchecking |-> FALSE]

Init ==
    /\ fn = ""
    /\ args = NoArgs
    /\ text = <<>>
    /\ pc = "idle"
    /\ ret = NoRet

\* a direct call of a function that returns in one step
Returns(name, a, r) ==
    /\ fn' = name
    /\ args' = a
    /\ ret' = r
    /\ pc' = "done"
    /\ UNCHANGED text

Call_trailing_punctuation ==
    /\ pc = "idle"
    /\ \E t \in Tokens :
        Returns("trailing_punctuation", [NoArgs EXCEPT !.string = t],
                ReturnedTuple(trailing_punctuation(t)))

Call_num2words ==
    /\ pc = "idle"
    /\ \E n \in Nums \cup TensNums, o \in BOOLEAN :
        Returns("num2words", [NoArgs EXCEPT !.num = n, !.ordinal = o],
                Returned(num2words(n, o)))

Call_process_contractions ==
    /\ pc = "idle"
    /\ \E t \in ContractionTokens :
        Returns("process_contractions", [NoArgs EXCEPT !.string = t],
                Returned(Ok(process_contractions(t))))

Call_process_dates ==
    /\ pc = "idle"
    /\ \E t \in DateTokens, c \in Countries :
        Returns("process_dates", [NoArgs EXCEPT !.string = t, !.country = c],
                Returned(process_dates(t, c)))

Call_process_numbers ==
    /\ pc = "idle"
    /\ \E t \in NumberTokens :
        Returns("process_numbers", [NoArgs EXCEPT !.string = t],
                Returned(process_numbers(t)))

Call_process_times ==
    /\ pc = "idle"
    /\ \E t \in TimeTokens :
        Returns("process_times", [NoArgs EXCEPT !.string = t],
                Returned(process_times(t)))

\* [stage(string) for string in text], given each element's result: the first
\* exception ends the comprehension, otherwise the list of the values
comprehension(results) ==
    Let({i \in 1..Len(results) : results[i].exc # "none"}, LAMBDA raising :
        IF raising # {}
        THEN results[CHOOSE i \in raising : \A j \in raising : i <= j]
        ELSE Ok([i \in 1..Len(results) |-> results[i].val]))

\* one stage of process_text: an exception ends the call, otherwise the
\* stage's list replaces text and control moves on
Stage(from, to, r) ==
    /\ pc = from
    /\ \E result \in {r} :
          IF result.exc # "none"
          THEN /\ ret' = Returned(result)
               /\ pc' = "done"
               /\ UNCHANGED text
          ELSE /\ text' = result.val
               /\ pc' = to
               /\ UNCHANGED ret
    /\ UNCHANGED <<fn, args>>

\* text = text.lower(); text = text.split()
PT_Call ==
    /\ pc = "idle"
    /\ \E t \in Texts, pron \in BOOLEAN, punct \in BOOLEAN, spell \in BOOLEAN :
        /\ fn' = "process_text"
        /\ args' = [NoArgs EXCEPT !.string = t, !.pronounciation = pron,
                                  !.punctuation = punct, !.spellchecking = spell]
        /\ text' = split_whitespace(lower(t))
        /\ pc' = "contractions"
        /\ UNCHANGED ret

PT_Contractions ==
    Stage("contractions", "dates",
          comprehension([i \in 1..Len(text) |-> Ok(process_contractions(text[i]))]))

PT_Dates ==
    Stage("dates", "numbers",
          comprehension([i \in 1..Len(text) |-> process_dates(text[i], "UK")]))

PT_Numbers ==
    Stage("numbers", "times",
          comprehension([i \in 1..Len(text) |-> process_numbers(text[i])]))

PT_Times ==
    Stage("times", "rejoin",
          comprehension([i \in 1..Len(text) |-> process_times(text[i])]))

\* lowercase every word, join on spaces and split again
PT_Rejoin ==
    Stage("rejoin", "spellcheck",
          Ok(split_whitespace(join(" ", [i \in 1..Len(text) |-> lower(text[i])]))))

PT_Spellcheck ==
    Stage("spellcheck", "pronounciation",
          IF args.spellchecking
          THEN comprehension([i \in 1..Len(text) |-> spellcheck(text[i])])
          ELSE Ok(text))

PT_Pronounciation ==
    Stage("pronounciation", "return",
          IF args.pronounciation
          THEN comprehension([i \in 1..Len(text) |->
                                 process_pronounciation(text[i], "US")])
          ELSE Ok(text))

\* final join, optional remove_punctuation, return
PT_Return ==
    /\ pc = "return"
    /\ ret' = Returned(Ok(IF args.punctuation THEN join(" ", text)
                          ELSE remove_punctuation(join(" ", text))))
    /\ pc' = "done"
    /\ UNCHANGED <<fn, args, text>>

Next ==
    \/ Call_trailing_punctuation
    \/ Call_num2words
    \/ Call_process_contractions
    \/ Call_process_dates
    \/ Call_process_numbers
    \/ Call_process_times
    \/ PT_Call
    \/ PT_Contractions
    \/ PT_Dates
    \/ PT_Numbers
    \/ PT_Times
    \/ PT_Rejoin
    \/ PT_Spellcheck
    \/ PT_Pronounciation
    \/ PT_Return

Spec == Init /\ [][Next]_vars

(***************************************************************************)
(* Properties                                                              *)
(***************************************************************************)
\* the call of the named function has returned or raised
Called(name) == pc = "done" /\ fn = name

AllPunctuation(s) == \A i \in 1..Len(s) : str_in(Char(s, i), punctuation)

\* the longest suffix of s made of punctuation characters, in the order of s
PunctuationSuffix(s) ==
    LET starts == {k \in 0..Len(s) : AllPunctuation(SubSeq(s, k + 1, Len(s)))}
    IN  SubSeq(s, (CHOOSE k \in starts : \A j \in starts : k <= j) + 1, Len(s))

NoDigit(s) == \A i \in 1..Len(s) : ~ isdigit(Char(s, i))

AllDigits(s) == s # "" /\ \A i \in 1..Len(s) : isdigit(Char(s, i))

startswith(s, prefix) == Len(prefix) <= Len(s) /\ SubSeq(s, 1, Len(prefix)) = prefix

\* C1: for every non-empty token that is not all punctuation,
\* trailing_punctuation returns (core, trailing) with core + trailing equal to
\* the token and trailing the maximal punctuation suffix in its original order.
C1_CorePlusTrailing ==
    (Called("trailing_punctuation") /\ args.string # "" /\ ~ AllPunctuation(args.string))
    => /\ ret.exc = "none"
       /\ ret.val[1] \o ret.val[2] = args.string
       /\ ret.val[2] = PunctuationSuffix(args.string)

\* C3: a token made up only of punctuation characters, of any length >= 1, is
\* returned unchanged as (token, "") without faulting.
C3_AllPunctuationAtomic ==
    (Called("trailing_punctuation") /\ args.string # "" /\ AllPunctuation(args.string))
    => ret = ReturnedTuple(Ok(<<args.string, "">>))

\* no run of 13 or more digits, so no numeral of 10^12 or more
NoHugeNumeral(token) ==
    \A i \in 1..(Len(token) - 12) : ~ AllDigits(SubSeq(token, i, i + 12))

\* a date-shaped token has its day in the ordinals table and its month in the
\* months table (process_text reads dates in UK order)
DateFieldsInRange(token) ==
    \A k \in 1..3 :
        re_match(re_date(token, date_separators[k]))
        => /\ decimal(split(token, date_separators[k])[1]) < Len(date_ords)
           /\ decimal(split(token, date_separators[k])[2]) < Len(months)

InClaimedDomain(string) ==
    \A i \in 1..Len(split_whitespace(lower(string))) :
        /\ NoHugeNumeral(split_whitespace(lower(string))[i])
        /\ DateFieldsInRange(split_whitespace(lower(string))[i])

\* C2: process_text returns a string for every text and option combination in
\* which no token holds a numeral of 10^12 or more or a date with a day or
\* month outside the tables: no stage faults on any token.
C2_AlwaysReturnsString ==
    (Called("process_text") /\ InClaimedDomain(args.string)) => ret.exc = "none"

AtLeastTrillion(num) == num.hi >= 1000

GroupAnds(g) == IF g >= 100 /\ g % 100 # 0 THEN 1 ELSE 0

\* number of non-zero remainders in the decomposition of n < 10^9
ExpectedAnds(n) ==
    LET m == n \div 1000000
        t == (n \div 1000) % 1000
        u == n % 1000
    IN  GroupAnds(m) + GroupAnds(t) + GroupAnds(u)
        + (IF m > 0 /\ n % 1000000 # 0 THEN 1 ELSE 0)
        + (IF t > 0 /\ u # 0 THEN 1 ELSE 0)

TensOrdinal(k) == SubSeq(nums_20_90[k - 1], 1, Len(nums_20_90[k - 1]) - 1) \o "ieth"

\* C6: for every multiple of ten n in 20..90, num2words(n, ordinal=True) is the
\* tens word with "y" replaced by "ieth", and the number stage turns "20th"
\* into "twentieth".
C6_TensOrdinal ==
    /\ (Called("num2words") /\ args.ordinal /\ args.num.hi = 0
        /\ args.num.lo \in {10 * k : k \in 2..9})
       => ret = Returned(Ok(TensOrdinal(args.num.lo \div 10)))
    /\ (Called("process_numbers") /\ args.string = "20th")
       => (ret.exc = "none" /\ lower(ret.val[1]) = "twentieth")

\* C7: for every n in 0..999,999,999 num2words(n) terminates, the recursion
\* reaching the base cases within the call depth, and the returned string
\* contains no digit character.
C7_TerminatesWithoutDigits ==
    (Called("num2words") /\ args.num.hi = 0 /\ args.num.lo >= 0)
    => /\ ret.exc = "none"
       /\ ret.val[1] # ""
       /\ NoDigit(ret.val[1])

C7_Witness ==
    /\ Called("num2words")
    /\ args.num = Small(999999999)
    /\ ~ args.ordinal
    /\ ret.exc = "none"
    /\ NoDigit(ret.val[1])

\* the three fields of a date token a<sep>b<sep>y, <<>> if s is none
DateTokenFields(s) ==
    LET seps == {k \in 1..3 :
                    /\ Len(split(s, date_separators[k])) = 3
                    /\ \A i \in 1..3 : AllDigits(split(s, date_separators[k])[i])}
    IN  IF seps = {} THEN <<>>
        ELSE split(s, date_separators[CHOOSE k \in seps : TRUE])

DateTokenSep(s) ==
    CHOOSE c \in {date_separators[k] : k \in 1..3} : Len(split(s, c)) = 3

\* a date token whose first two fields are both in 1..12 and whose year has
\* two or four digits
IsClaimedDate(s) ==
    /\ DateTokenFields(s) # <<>>
    /\ \A i \in 1..2 : /\ Len(DateTokenFields(s)[i]) \in 1..2
                       /\ decimal(DateTokenFields(s)[i]) \in 1..12
    /\ Len(DateTokenFields(s)[3]) \in {2, 4}

SwappedDate(s) ==
    DateTokenFields(s)[2] \o DateTokenSep(s) \o DateTokenFields(s)[1]
    \o DateTokenSep(s) \o DateTokenFields(s)[3]

\* C8: for a date token a<sep>b<sep>y with a, b in 1..12, process_dates takes a
\* as the day and b as the month under 'UK' and b as the day and a as the month
\* under 'US'; the US reading of a<sep>b<sep>y is the UK reading of
\* b<sep>a<sep>y, and "01/12/2000" is "first of December ..." under UK and
\* "twelfth of January ..." under US.
C8_RegionOrder ==
    (Called("process_dates") /\ IsClaimedDate(args.string))
    => LET f     == DateTokenFields(args.string)
           day   == IF args.country = "UK" THEN decimal(f[1]) ELSE decimal(f[2])
           month == IF args.country = "UK" THEN decimal(f[2]) ELSE decimal(f[1])
       IN  /\ ret.exc = "none"
           /\ ret.val[1] = date_ords[day + 1] \o " of " \o months[month + 1] \o " "
                        \o num2words(Small(decimal(f[3])), FALSE).val
           /\ args.country = "US" => ret = Returned(process_dates(SwappedDate(args.string), "UK"))
           /\ args.string = "01/12/2000"
              => ret.val[1] = IF args.country = "UK" THEN "first of December Two Thousand"
                           ELSE "twelfth of January Two Thousand"

C8_Witness ==
    /\ Called("process_dates")
    /\ args.string = "01/12/2000"
    /\ args.country = "US"
    /\ ret = Returned(Ok("twelfth of January Two Thousand"))

\* the whole of s is 1-2 digits, sep, 1-2 digits, the same sep, 2 or 4 digits
FullDateShape(s) ==
    \E k \in 1..3 : re_fullmatch(s, re_date(s, date_separators[k]))

\* C9: process_dates rewrites a token only when its whole core has the date
\* shape; a core that has the shape only as a prefix (a 3- or 5-digit year, a
\* fourth field, trailing letters) is returned unchanged with its trailing
\* punctuation.
C9_WholeCoreShape ==
    (Called("process_dates") /\ trailing_punctuation(args.string).exc = "none"
     /\ ~ FullDateShape(trailing_punctuation(args.string).val[1]))
    => ret = Returned(Ok(args.string))

\* the separator of the multiplication rule that fires on the core s, "" if none
TimesSeparator(s) ==
    IF endswith_any(s, number_ords) THEN ""
    ELSE IF re_match(re_operation(s, "*")) THEN "*"
    ELSE IF re_match(re_operation(s, "x")) THEN "x"
    ELSE IF re_match(re_operation(s, "X")) THEN "X"
    ELSE ""

\* C10: whenever the multiplication rule of process_numbers fires, the output
\* is words(a) + " times " + words(b) for exactly two operands, each a pure
\* digit string: it contains exactly one "times".
C10_ExactlyTwoOperands ==
    (Called("process_numbers") /\ trailing_punctuation(args.string).exc = "none"
     /\ TimesSeparator(trailing_punctuation(args.string).val[1]) # "")
    => LET tp       == trailing_punctuation(args.string).val
           operands == split(tp[1], TimesSeparator(tp[1]))
       IN  /\ Len(operands) = 2
           /\ \A i \in 1..Len(operands) : AllDigits(operands[i])
           /\ ret.exc = "none"
           /\ count(ret.val[1], "times") = 1
           /\ ret.val[1] = words_of(operands[1], FALSE).val \o " times "
                        \o words_of(operands[2], FALSE).val \o tp[2]

\* C11: for every n in 100..999,999,999 the ordinal repair of
\* num2words(n, ordinal=True) appends "th" only to a cardinal tail: when the
\* remainder term already ends in an ordinal word of the 0..19 table nothing is
\* appended, so the result ends in that word (n mod 100 = 2 ends in "Second")
\* and no result ends in "Secondth".
C11_RepairOnlyCardinalTail ==
    (Called("num2words") /\ args.ordinal /\ args.num.hi = 0 /\ args.num.lo >= 100)
    => /\ ret.exc = "none"
       /\ ~ endswith(ret.val[1], "Secondth")
       /\ (args.num.lo % 100) \in 1..19
          => endswith(ret.val[1], nums_0_19(TRUE)[(args.num.lo % 100) + 1])

====
